---- MODULE Spec2Model ----
(***************************************************************************)
(* Model of mvast_fmri_task.py: the start gate, the timed phases, the      *)
(* flashing checkerboard loop, the session sequencing of run_task and the  *)
(* exit code of main.                                                      *)
(*                                                                         *)
(* Time is counted in ticks of the monotonic clock (time.perf_counter).    *)
(* One half-period of the flash (1 / FLASH_FREQUENCY / 2 seconds) is       *)
(* TicksPerHalfPeriod ticks.  The sleeps of the polling loops (0.1 ms to   *)
(* 10 ms) are far shorter than a tick, so one loop iteration normally      *)
(* advances the clock by 0 or 1 tick; an iteration that takes 2 ticks or   *)
(* more is a stall (scheduling jitter).                                    *)
(***************************************************************************)
EXTENDS Integers, Sequences, FiniteSets, TLC

\* ---------------------------------------------------------------- constants
NUM_CYCLES == 5
FIXATION_DURATION == 20
CHECKERBOARD_DURATION == 20
FLASH_FREQUENCY == 8
DEFAULT_INSTRUCTION_DURATION == 10
EXIT_OK == 0
EXIT_FAIL == 1
JOIN_TIMEOUT == 1

\* ------------------------------------------------------------------- bounds
TicksPerHalfPeriod == 2
MaxStall == 4
MaxStalls == 2
MaxPosts == 2
MaxTriggers == 2
MaxPolls == 3

\* Absent value of a numeric log field or of a result not yet produced.
None == 0 - 1

TicksPerSecond == 2 * FLASH_FREQUENCY * TicksPerHalfPeriod
Ticks(seconds) == seconds * TicksPerSecond

VARIABLES
  pc,              \* position of the main thread
  config,          \* the dictionary load_config returned
  events,          \* pygame's event queue
  posted,          \* number of events the operator and the host have raised
  trigger_queue,   \* TriggerInputHandler.trigger_queue: number of queued True
  running,         \* TriggerInputHandler.running
  thread,          \* state of the trigger thread
  now,             \* time.perf_counter() as the main thread read it last
  task_start,      \* run_task: start_time
  phase_start,     \* run_task: instruction_start, fixation_start, checkerboard_start
  end_time,        \* end_time of the phase function that is running
  last_flip_time,  \* show_flashing_checkerboard: last_flip_time
  frame_count,     \* show_flashing_checkerboard: frame_count
  current_image,   \* show_flashing_checkerboard: current_image
  cycle,           \* run_task: cycle (0 in the instruction phase)
  screen,          \* the image pygame.display.flip() presented last
  log,             \* the lines run_task printed
  expected_duration, \* run_task: expected_duration
  outcome,         \* the way the session ended
  exit_code,       \* what main returned to sys.exit
  stalls_left,     \* number of stalled loop iterations the scheduler may still cause
  max_gap,         \* longest interval between two clock reads of the flashing loop
  loop_time,       \* the clock as the loop condition of the flashing loop read it last
  lateness,        \* current_time minus the deadline, at the latest flip
  injected,        \* ticks the stalled iterations of the flashing loop took
  start_key,       \* key of the event on which wait_for_start returned True
  port,            \* the serial port of _read_serial_triggers: ser.is_open
  serial_failed,   \* the latest failure of the serial transport
  polls,           \* polls of wait_for_start that found nothing to return on
  stored,          \* the fields of the configuration file as json.load gives them
  merged,          \* load_config: merged, with the fields as Python values
  cancel_raised    \* where the first cancel key or quit event was raised

vars == <<pc, config, events, posted, trigger_queue, running, thread, now,
          task_start, phase_start, end_time, last_flip_time, frame_count,
          current_image, cycle, screen, log, expected_duration, outcome,
          exit_code, stalls_left, max_gap, loop_time, lateness, injected, start_key,
          cancel_raised, port, serial_failed, polls, stored, merged>>

flashVars == <<last_flip_time, frame_count, current_image, max_gap, loop_time, lateness,
               injected>>

\* What only the trigger thread changes, besides trigger_queue and thread.
threadSide == <<port, serial_failed>>

\* What only load_config changes, besides config.
loadVars == <<stored, merged>>

\* ------------------------------------------------------------------- events
QUIT == [type |-> "QUIT", key |-> "", unicode |-> ""]
KeyDown(k, u) == [type |-> "KEYDOWN", key |-> k, unicode |-> u]
K_SPACE == KeyDown("K_SPACE", " ")
K_ESCAPE == KeyDown("K_ESCAPE", "ESC")
K_EQUALS == KeyDown("K_EQUALS", "=")
K_t == KeyDown("K_t", "t")
Events == {QUIT, K_SPACE, K_ESCAPE, K_EQUALS, K_t}
CancelEvents == {QUIT, K_ESCAPE}

\* str.lower() on the characters of the model
Lower(c) ==
  CASE c = "T" -> "t"
    [] c = "BOTH" -> "both"
    [] c = "BLACK_WHITE" -> "black_white"
    [] OTHER -> c

StartModes == {"manual", "trigger", "both"}
TriggerChars == {"=", " ", "T"}

\* trigger_type is the Python type of the value of trigger_character: "str",
\* "null" for None and 0, which are false and have no lower() (trigger_character
\* is then ""), or "num" for another number.
Config(ch, mode, serial, instr) ==
  [trigger_character |-> ch, trigger_type |-> "str", start_mode |-> mode,
   use_serial_port |-> serial, instruction_duration |-> instr]

DEFAULT_CONFIG == Config("=", "both", FALSE, DEFAULT_INSTRUCTION_DURATION)

\* --------------------------------------------------- the configuration file
\* The values json.load gives: a string, a number, null, and Absent for a
\* key the file does not have.
JStr(s) == [t |-> "str", s |-> s, n |-> 0]
JNum(n) == [t |-> "num", s |-> "", n |-> n]
JNull == [t |-> "null", s |-> "", n |-> 0]
Absent == [t |-> "absent", s |-> "", n |-> 0]

Fields == {"trigger_character", "start_mode", "color_scheme", "instruction_duration"}

ColorSchemes == {"blue_yellow", "black_white"}

\* DEFAULT_CONFIG, the fields that load_config validates or the gate reads
DefaultFields ==
  [trigger_character |-> JStr("="), start_mode |-> JStr("both"),
   color_scheme |-> JStr("blue_yellow"),
   instruction_duration |-> JNum(DEFAULT_INSTRUCTION_DURATION)]

\* merged = DEFAULT_CONFIG.copy(); merged.update(config)
Merge(file) == [f \in Fields |-> IF file[f] = Absent THEN DefaultFields[f] ELSE file[f]]

\* merged.get(...).lower() raises AttributeError on None and on a number
LowerRaises(v) == v.t # "str"

\* The validation of color_scheme: an unknown scheme is replaced.
ValidateColorScheme(m) ==
  IF Lower(m.color_scheme.s) \notin ColorSchemes
  THEN [m EXCEPT !.color_scheme = JStr("blue_yellow")] ELSE m

\* The validation of start_mode: an unknown mode is replaced.
ValidateStartMode(m) ==
  IF Lower(m.start_mode.s) \notin {"manual", "trigger", "both"}
  THEN [m EXCEPT !.start_mode = JStr("both")] ELSE m

\* float(v) raises TypeError on None and ValueError on a string that is no
\* number.  "5" is the string of the model that is a number.
FloatRaises(v) == ~(v.t = "num" \/ (v.t = "str" /\ v.s = "5"))
Float(v) == IF v.t = "num" THEN v.n ELSE 5

\* The validation of instruction_duration: values float() raises on and
\* negative values are replaced.
ValidateInstructionDuration(m) ==
  LET v == m.instruction_duration
  IN IF FloatRaises(v) \/ Float(v) < 0
     THEN [m EXCEPT !.instruction_duration = JNum(DEFAULT_INSTRUCTION_DURATION)]
     ELSE [m EXCEPT !.instruction_duration = JNum(Float(v))]

\* load_config on the fields of the file: whether it raises, and merged.
LoadConfig(file) ==
  LET m0 == Merge(file)
  IN IF LowerRaises(m0.color_scheme) THEN [raised |-> TRUE, merged |-> m0]
     ELSE LET m1 == ValidateColorScheme(m0)
          IN IF LowerRaises(m1.start_mode) THEN [raised |-> TRUE, merged |-> m1]
             ELSE [raised |-> FALSE,
                   merged |-> ValidateInstructionDuration(ValidateStartMode(m1))]

\* The fields of a configuration dictionary load_config returned.
FieldsOf(cfg) ==
  [trigger_character |-> JStr(cfg.trigger_character),
   start_mode |-> JStr(cfg.start_mode),
   color_scheme |-> JStr("blue_yellow"),
   instruction_duration |-> JNum(cfg.instruction_duration)]

\* The configuration dictionary with the fields m, as run_task reads it.
ConfigOf(m) ==
  [Config(m.trigger_character.s, m.start_mode.s, FALSE, m.instruction_duration.n)
     EXCEPT !.trigger_type = IF m.trigger_character = JNum(0) THEN "null"
                             ELSE m.trigger_character.t]

Max(a, b) == IF a >= b THEN a ELSE b
Abs(a) == IF a < 0 THEN 0 - a ELSE a
Last(s) == s[Len(s)]

NoCancel == [pc |-> "", cycle |-> 0, within |-> FALSE, by |-> ""]

\* ------------------------------------------------------------ the timing log
Entry(ev, kind, c, expected, actual) ==
  [ev |-> ev, kind |-> kind, cycle |-> c, expected |-> expected, actual |-> actual]

\* "Start signal received: ..." and "Task started!"
StartedLine(by) == Entry("started", by, None, None, None)
\* "--- Instruction Screen ---", "Fixation phase (20.0s)...", "Checkerboard phase ..."
BeginLine(kind, c, expected) == Entry("begin", kind, c, expected, None)
\* "... completed (actual: ..., expected: ...)"
CompletedLine(kind, c, expected, actual) == Entry("completed", kind, c, expected, actual)
\* "Task cancelled before start." / "Task cancelled during ...": no cycle, no duration
CancelledLine(kind) == Entry("cancelled", kind, None, None, None)
\* "Task completed successfully!", total and expected duration
TaskCompletedLine(expected, actual) == Entry("task_completed", "Session", None, expected, actual)
\* "Task interrupted by user."
InterruptedLine == Entry("interrupted", "Session", None, None, None)
\* "WARNING: Timing drift detected"
DriftLine(expected, actual) == Entry("drift_warning", "Session", None, expected, actual)
\* "Warning: Frame count (...) differs from expected (...)"
FrameWarningLine(expected, actual) == Entry("frame_warning", "Checkerboard", None, expected, actual)

\* ------------------------------------------------------ scanning the events
Scan(result, key) == [result |-> result, key |-> key]

\* The for-loop of a wait_for_start that gives up after MaxPolls polls
RECURSIVE ScanStartWithTimeout(_, _, _)
ScanStartWithTimeout(evs, start_mode, trigger_char) ==
  IF evs = <<>>
  THEN (IF polls = MaxPolls THEN Scan("cancelled", "") ELSE Scan("none", ""))
  ELSE LET event == Head(evs) IN
    IF event.type = "QUIT" THEN Scan("cancelled", "")
    ELSE IF event.type = "KEYDOWN" /\ event.key = "K_SPACE"
            /\ start_mode \in {"manual", "both"}
         THEN Scan("SPACEBAR", event.key)
    ELSE IF event.type = "KEYDOWN" /\ start_mode \in {"trigger", "both"}
            /\ event.unicode # "" /\ Lower(event.unicode) = Lower(trigger_char)
         THEN Scan("TRIGGER_CHAR", event.key)
    ELSE IF event.type = "KEYDOWN" /\ event.key = "K_ESCAPE"
         THEN Scan("cancelled", event.key)
    ELSE ScanStartWithTimeout(Tail(evs), start_mode, trigger_char)

\* The for-loop of wait_for_start over one pygame.event.get() list: what the
\* loop returns on ("none" when it ends without returning, "raised" when
\* trigger_char.lower() raises AttributeError because the trigger character
\* of the configuration is no string) and the key of the event it returned
\* on.
RECURSIVE ScanStart(_, _, _)
ScanStart(evs, start_mode, trigger_char) ==
  IF evs = <<>> THEN Scan("none", "")
  ELSE LET event == Head(evs) IN
    IF event.type = "QUIT" THEN Scan("cancelled", "")
    ELSE IF event.type = "KEYDOWN" /\ event.key = "K_SPACE"
            /\ start_mode \in {"manual", "both"}
         THEN Scan("SPACEBAR", event.key)
    ELSE IF event.type = "KEYDOWN" /\ start_mode \in {"trigger", "both"}
            /\ event.unicode # "" /\ config.trigger_type # "str"
         THEN Scan("raised", event.key)
    ELSE IF event.type = "KEYDOWN" /\ start_mode \in {"trigger", "both"}
            /\ event.unicode # "" /\ Lower(event.unicode) = Lower(trigger_char)
         THEN Scan("TRIGGER_CHAR", event.key)
    ELSE IF event.type = "KEYDOWN" /\ event.key = "K_ESCAPE"
         THEN Scan("cancelled", event.key)
    ELSE ScanStart(Tail(evs), start_mode, trigger_char)

\* The for-loop of show_fixation, show_instruction_image and
\* show_flashing_checkerboard: TRUE when the phase returns False.
RECURSIVE ScanCancel(_)
ScanCancel(evs) ==
  IF evs = <<>> THEN FALSE
  ELSE LET event == Head(evs) IN
    IF event.type = "QUIT" THEN TRUE
    ELSE IF event.type = "KEYDOWN" /\ event.key = "K_ESCAPE" THEN TRUE
    ELSE ScanCancel(Tail(evs))

\* The for-loop of show_message(wait_for_input=True).
RECURSIVE ScanMessage(_)
ScanMessage(evs) ==
  IF evs = <<>> THEN "none"
  ELSE LET event == Head(evs) IN
    IF event.type = "QUIT" THEN "false"
    ELSE IF event.type = "KEYDOWN" /\ event.key = "K_SPACE" THEN "true"
    ELSE IF event.type = "KEYDOWN" /\ event.key = "K_ESCAPE" THEN "false"
    ELSE ScanMessage(Tail(evs))

\* ------------------------------------------------------------ run_task parts
\* load_instruction_image always returns a surface (an image or rendered text)
instruction_image == TRUE

\* TriggerInputHandler is created when config.get("trigger_character") is
\* true: a string that is not empty or a number that is not 0
HasHandler ==
  \/ config.trigger_type = "str" /\ config.trigger_character # ""
  \/ config.trigger_type = "num"

\* Mutant: main returns 0 whatever run_task returned.
ExitCodeAlwaysZero(success) == EXIT_OK

\* The sleep of _read_keyboard_triggers, time.sleep(0.1), in ticks (rounded
\* up); the serial loop waits as long for a byte (timeout=0.1).
ThreadPeriod == Ticks(1) \div 10 + 1

\* The longest the thread takes to end once running is False: the opening of
\* the port, the read timeout and the sleep of one loop iteration, and one
\* stall.
ThreadLatency == 3 * ThreadPeriod + MaxStall

\* thread.join(timeout=1.0) gives up before the thread has ended
JoinTimesOut == Ticks(JOIN_TIMEOUT) < ThreadLatency

\* main: return 0 if success else 1
ExitCode(success) == IF success THEN EXIT_OK ELSE EXIT_FAIL

\* Mutant: one image per period, 1.0 / frequency.
frame_duration_period == TicksPerSecond \div FLASH_FREQUENCY

\* 1.0 / frequency / 2.0, in ticks
frame_duration == TicksPerSecond \div (2 * FLASH_FREQUENCY)

\* int(duration * frequency * 2)
expected_frames == CHECKERBOARD_DURATION * FLASH_FREQUENCY * 2

\* Mutant: the instruction time is left out of the expected duration.
ExpectedDurationOfCycles == NUM_CYCLES * (FIXATION_DURATION + CHECKERBOARD_DURATION)

\* NUM_CYCLES * (FIXATION_DURATION + CHECKERBOARD_DURATION) + instruction_duration
ExpectedDuration ==
  NUM_CYCLES * (FIXATION_DURATION + CHECKERBOARD_DURATION) + config.instruction_duration

PhaseFn(kind) ==
  CASE kind = "Instruction" -> "show_instruction_image"
    [] kind = "Fixation" -> "show_fixation"
    [] kind = "Checkerboard" -> "show_flashing_checkerboard"

PhaseFns == {"show_instruction_image", "show_fixation", "show_flashing_checkerboard"}

PhaseDuration(kind) ==
  CASE kind = "Instruction" -> config.instruction_duration
    [] kind = "Fixation" -> FIXATION_DURATION
    [] kind = "Checkerboard" -> CHECKERBOARD_DURATION

\* The static phases flip their image before the loop; the flashing phase
\* presents nothing before its first due flip.
PhaseScreen(kind) ==
  CASE kind = "Instruction" -> "instruction"
    [] kind = "Fixation" -> "fixation"
    [] kind = "Checkerboard" -> screen

Phase(kind, c) == [kind |-> kind, cycle |-> c]

\* Mutant: for cycle in range(1, NUM_CYCLES).
SuccessorShortRange(kind, c) ==
  CASE kind = "Instruction" -> Phase("Fixation", 1)
    [] kind = "Fixation" -> Phase("Checkerboard", c)
    [] kind = "Checkerboard" ->
         IF c < NUM_CYCLES - 1 THEN Phase("Fixation", c + 1) ELSE Phase("Done", c)

\* The order of the phases in run_task: the instruction screen, then
\* for cycle in range(1, NUM_CYCLES + 1): fixation, checkerboard.
Successor(kind, c) ==
  CASE kind = "Instruction" -> Phase("Fixation", 1)
    [] kind = "Fixation" -> Phase("Checkerboard", c)
    [] kind = "Checkerboard" ->
         IF c < NUM_CYCLES THEN Phase("Fixation", c + 1) ELSE Phase("Done", c)

\* Mutant: the deadline of a phase is computed from the start of the session.
StartPhaseFromSessionStart(kind, c, t, lg) ==
  /\ pc' = PhaseFn(kind)
  /\ cycle' = c
  /\ phase_start' = t
  /\ end_time' = task_start + Ticks(
        IF kind = "Instruction" THEN config.instruction_duration
        ELSE config.instruction_duration
             + (c - 1) * (FIXATION_DURATION + CHECKERBOARD_DURATION)
             + FIXATION_DURATION
             + (IF kind = "Checkerboard" THEN CHECKERBOARD_DURATION ELSE 0))
  /\ log' = Append(lg, BeginLine(kind, c, PhaseDuration(kind)))
  /\ screen' = PhaseScreen(kind)

\* run_task reaches the call of a phase function at time t with the lines lg
\* printed so far; the function's prologue runs (image, start_time, end_time).
StartPhase(kind, c, t, lg) ==
  /\ pc' = PhaseFn(kind)
  /\ cycle' = c
  /\ phase_start' = t
  /\ end_time' = t + Ticks(PhaseDuration(kind))
  /\ log' = Append(lg, BeginLine(kind, c, PhaseDuration(kind)))
  /\ screen' = PhaseScreen(kind)

\* The locals of show_flashing_checkerboard when a phase starts at time t:
\* set by its prologue, untouched by the other phase functions.
FlashStart(kind, t) ==
  IF kind = "Checkerboard"
  THEN /\ last_flip_time' = t
       /\ frame_count' = 0
       /\ current_image' = TRUE
       /\ max_gap' = 0
       /\ loop_time' = t
       /\ lateness' = 0
       /\ injected' = 0
  ELSE UNCHANGED flashVars

\* run_task returns with the outcome `how`: the finally clause is entered
\* and TriggerInputHandler.stop sets running to False.
Return(how, lg) ==
  /\ pc' = "stop"
  /\ outcome' = how
  /\ running' = IF HasHandler THEN FALSE ELSE running
  /\ log' = lg
  /\ UNCHANGED exit_code

\* One loop iteration: d2 ticks pass in the sleep and d1 ticks between the
\* loop condition and the next reading of the clock.  Normally the sleep
\* takes at most one tick and the rest no measurable time; anything else is
\* a stall.
Sleep(d2, d1) ==
  LET stall == d2 >= 2 \/ d1 >= 1
  IN /\ stall => stalls_left > 0
     /\ stalls_left' = IF stall THEN stalls_left - 1 ELSE stalls_left

\* The ticks an iteration adds to the delay injected by stalls.
Injected(d2, d1) == IF d2 >= 2 \/ d1 >= 1 THEN d2 + d1 ELSE 0

\* ------------------------------------------------------------------ actions
\* main calls load_config outside its try blocks: an exception of
\* load_config ends the process with a traceback and exit status 1.
load_config ==
  /\ pc = "load_config"
  /\ LET r == LoadConfig(stored)
     IN IF r.raised
        THEN /\ pc' = "exit"
             /\ outcome' = "Crashed"
             /\ exit_code' = EXIT_FAIL
             /\ UNCHANGED <<config, merged>>
        ELSE /\ pc' = "main"
             /\ merged' = r.merged
             /\ config' = ConfigOf(r.merged)
             /\ UNCHANGED <<outcome, exit_code>>
  /\ UNCHANGED <<stored, events, posted, trigger_queue, running, thread, now,
                 task_start, phase_start, end_time, cycle, screen, log,
                 expected_duration, stalls_left, start_key, cancel_raised>>
  /\ UNCHANGED flashVars
  /\ UNCHANGED threadSide
  /\ UNCHANGED polls

\* main up to the call of run_task: pygame.init and display.set_mode, which
\* raise pygame.error when the display cannot be initialised.
main ==
  /\ pc = "main"
  /\ \E display_ok \in BOOLEAN :
       IF display_ok
       THEN /\ pc' = "run_task"
            /\ UNCHANGED <<outcome, exit_code>>
       ELSE /\ pc' = "exit"
            /\ outcome' = "DisplayError"
            /\ exit_code' = EXIT_FAIL
  /\ UNCHANGED <<config, events, posted, trigger_queue, running, thread, now,
                 task_start, phase_start, end_time, cycle, screen, log,
                 expected_duration, stalls_left, start_key, cancel_raised>>
  /\ UNCHANGED flashVars
  /\ UNCHANGED threadSide
  /\ UNCHANGED loadVars
  /\ UNCHANGED polls

\* run_task with the trigger handler started before the images are validated
run_taskStartsHandlerFirst ==
  /\ pc = "run_task"
  /\ \E checkerboards_ok \in BOOLEAN :
       /\ running' = IF HasHandler THEN TRUE ELSE running
       /\ thread' = IF ~HasHandler THEN thread
                    ELSE IF config.use_serial_port THEN "serial_open"
                    ELSE "keyboard"
       /\ IF ~checkerboards_ok
          THEN /\ pc' = "show_message"
               /\ screen' = "error_message"
          ELSE /\ pc' = "wait_for_start"
               /\ screen' = "wait_message"
  /\ UNCHANGED <<config, events, posted, trigger_queue, now, task_start,
                 phase_start, end_time, cycle, log, expected_duration,
                 outcome, exit_code, stalls_left, start_key, cancel_raised>>
  /\ UNCHANGED flashVars
  /\ UNCHANGED threadSide
  /\ UNCHANGED loadVars
  /\ UNCHANGED polls

\* Mutant: run_task empties the event queue before it calls wait_for_start.
run_taskClearsEvents ==
  /\ pc = "run_task"
  /\ \E checkerboards_ok \in BOOLEAN :
       IF ~checkerboards_ok
       THEN /\ pc' = "show_message"
            /\ screen' = "error_message"
            /\ UNCHANGED <<running, thread>>
       ELSE /\ pc' = "wait_for_start"
            /\ screen' = "wait_message"
            /\ running' = IF HasHandler THEN TRUE ELSE running
            /\ thread' = IF ~HasHandler THEN thread
                         ELSE IF config.use_serial_port THEN "serial_open"
                         ELSE "keyboard"
  /\ events' = <<>>
  /\ UNCHANGED <<config, posted, trigger_queue, now, task_start,
                 phase_start, end_time, cycle, log, expected_duration,
                 outcome, exit_code, stalls_left, start_key, cancel_raised>>
  /\ UNCHANGED flashVars
  /\ UNCHANGED threadSide
  /\ UNCHANGED loadVars
  /\ UNCHANGED polls

\* run_task up to the loop of wait_for_start: the images are loaded, the
\* trigger handler is started and the waiting message is presented.  When
\* the checkerboard images cannot be loaded the error message is presented.
\* TriggerInputHandler.__init__ raises AttributeError on trigger_char.lower()
\* when the trigger character is a number; main catches it and returns 1.
run_task ==
  /\ pc = "run_task"
  /\ \E checkerboards_ok \in BOOLEAN :
       IF ~checkerboards_ok
       THEN /\ pc' = "show_message"
            /\ screen' = "error_message"
            /\ UNCHANGED <<running, thread, outcome, exit_code>>
       ELSE IF HasHandler /\ config.trigger_type # "str"
       THEN /\ pc' = "exit"
            /\ outcome' = "Crashed"
            /\ exit_code' = EXIT_FAIL
            /\ UNCHANGED <<running, thread, screen>>
       ELSE /\ pc' = "wait_for_start"
            /\ screen' = "wait_message"
            /\ running' = IF HasHandler THEN TRUE ELSE running
            /\ thread' = IF ~HasHandler THEN thread
                         ELSE IF config.use_serial_port THEN "serial_open"
                         ELSE "keyboard"
            /\ UNCHANGED <<outcome, exit_code>>
  /\ UNCHANGED <<config, events, posted, trigger_queue, now, task_start,
                 phase_start, end_time, cycle, log, expected_duration,
                 stalls_left, start_key, cancel_raised>>
  /\ UNCHANGED flashVars
  /\ UNCHANGED threadSide
  /\ UNCHANGED loadVars
  /\ UNCHANGED polls

\* One iteration of the loop of show_message(error_msg, wait_for_input=True);
\* whatever it returns, run_task returns False.
show_message ==
  /\ pc = "show_message"
  /\ events' = <<>>
  /\ IF ScanMessage(events) = "none"
     THEN UNCHANGED <<pc, outcome, exit_code>>
     ELSE /\ pc' = "exit"
          /\ outcome' = "AssetError"
          /\ exit_code' = ExitCode(FALSE)
  /\ UNCHANGED <<config, posted, trigger_queue, running, thread, now,
                 task_start, phase_start, end_time, cycle, screen, log,
                 expected_duration, stalls_left, start_key, cancel_raised>>
  /\ UNCHANGED flashVars
  /\ UNCHANGED threadSide
  /\ UNCHANGED loadVars
  /\ UNCHANGED polls

\* Mutant: check_trigger looks at the queue without taking from it.
check_triggerPeeks(q) == [returned |-> q > 0, queue |-> q]

\* TriggerInputHandler.check_trigger on a queue of q triggers: get_nowait
\* takes one and True is returned, or raises queue.Empty and False is
\* returned.  What it returns and the queue it leaves.
check_trigger(q) ==
  IF q > 0 THEN [returned |-> TRUE, queue |-> q - 1]
  ELSE [returned |-> FALSE, queue |-> q]

\* One iteration of the loop of wait_for_start and, when it returns, the part
\* of run_task that follows.
wait_for_start ==
  /\ pc = "wait_for_start"
  /\ LET start_mode == Lower(config.start_mode)
         scan == ScanStart(events, start_mode, config.trigger_character)
         checked == /\ scan.result = "none"
                    /\ start_mode \in {"trigger", "both"}
                    /\ HasHandler
         got == IF checked THEN check_trigger(trigger_queue)
                ELSE [returned |-> FALSE, queue |-> trigger_queue]
         serial == got.returned
     IN /\ events' = <<>>
        /\ trigger_queue' = got.queue
        /\ IF scan.result = "cancelled"
           THEN /\ Return("Cancelled", Append(log, CancelledLine("Start")))
                /\ UNCHANGED <<task_start, phase_start, end_time, cycle, screen,
                               start_key>>
                /\ UNCHANGED flashVars
           ELSE IF scan.result = "raised"
           THEN /\ Return("Crashed", log)
                /\ UNCHANGED <<task_start, phase_start, end_time, cycle, screen,
                               start_key>>
                /\ UNCHANGED flashVars
           ELSE IF scan.result \in {"SPACEBAR", "TRIGGER_CHAR"} \/ serial
           THEN /\ task_start' = now
                /\ start_key' = IF serial THEN "SERIAL" ELSE scan.key
                /\ LET lg == Append(log, StartedLine(IF serial THEN "SERIAL"
                                                      ELSE scan.result))
                   IN IF instruction_image
                      THEN /\ StartPhase("Instruction", 0, now, lg)
                           /\ FlashStart("Instruction", now)
                      ELSE /\ StartPhase("Fixation", 1, now, lg)
                           /\ FlashStart("Fixation", now)
                /\ UNCHANGED <<running, outcome, exit_code>>
           ELSE /\ UNCHANGED <<pc, running, outcome, exit_code, log, task_start,
                               phase_start, end_time, cycle, screen, start_key>>
                /\ UNCHANGED flashVars
        /\ polls' = IF scan.result = "none" /\ ~serial
                    THEN (IF polls < MaxPolls THEN polls + 1 ELSE polls)
                    ELSE 0
  /\ UNCHANGED <<config, posted, thread, now, expected_duration, stalls_left,
                 cancel_raised>>
  /\ UNCHANGED threadSide
  /\ UNCHANGED loadVars

\* The end of run_task after the last cycle, at time t: the totals, the
\* drift warning, the completion message, sleep(3) and return True.
Complete(t, lg) ==
  LET total_duration == t - task_start
      timing_drift == total_duration - Ticks(ExpectedDuration)
      lg2 == Append(lg, TaskCompletedLine(ExpectedDuration, total_duration))
      lg3 == IF 10 * Abs(timing_drift) > TicksPerSecond
             THEN Append(lg2, DriftLine(ExpectedDuration, total_duration)) ELSE lg2
  IN /\ expected_duration' = ExpectedDuration
     /\ screen' = "complete_message"
     /\ now' = t + Ticks(3)
     /\ Return("Completed", lg3)

\* The end of show_flashing_checkerboard: a warning is printed when the
\* frame count is more than 2 frames off the expected one.
FrameCheck(lg) ==
  IF Abs(frame_count - expected_frames) > 2
  THEN Append(lg, FrameWarningLine(expected_frames, frame_count))
  ELSE lg

\* What run_task does when a phase function returned True at time t.
PhaseCompleted(kind, t) ==
  LET actual == t - phase_start
      lg0 == IF kind = "Checkerboard" THEN FrameCheck(log) ELSE log
      lg == Append(lg0, CompletedLine(kind, cycle, PhaseDuration(kind), actual))
      next == Successor(kind, cycle)
  IN /\ IF next.kind = "Done"
        THEN /\ Complete(t, lg)
             /\ UNCHANGED <<phase_start, end_time, cycle>>
        ELSE /\ StartPhase(next.kind, next.cycle, t, lg)
             /\ now' = t
             /\ UNCHANGED <<running, outcome, exit_code, expected_duration>>
     /\ IF kind = "Checkerboard"
        THEN /\ max_gap' = Max(max_gap, t - now)
             /\ loop_time' = t
             /\ injected' = injected + Injected(t - now, 0)
             /\ UNCHANGED <<last_flip_time, frame_count, current_image, lateness>>
        ELSE FlashStart(next.kind, t)

\* What run_task does when a phase function returned False at time t.
PhaseCancelled(kind, t) ==
  /\ Return("Cancelled", Append(log, CancelledLine(kind)))
  /\ now' = t
  /\ UNCHANGED <<phase_start, end_time, cycle, screen, expected_duration>>
  /\ UNCHANGED flashVars

\* Mutant: once its time has elapsed the static phase does not return.
StaticPhaseNeverReturns(kind) ==
  /\ pc = PhaseFn(kind)
  /\ \E d \in 0 .. MaxStall :
       /\ Sleep(d, 0)
       /\ IF now + d < end_time
          THEN /\ events' = <<>>
               /\ IF ScanCancel(events)
                  THEN PhaseCancelled(kind, now + d)
                  ELSE /\ now' = now + d
                       /\ UNCHANGED <<pc, phase_start, end_time, cycle, screen, log,
                                      expected_duration, running, outcome, exit_code>>
                       /\ UNCHANGED flashVars
          ELSE /\ UNCHANGED <<events, now, pc, phase_start, end_time, cycle, screen,
                              log, expected_duration, running, outcome, exit_code>>
               /\ UNCHANGED flashVars
  /\ UNCHANGED <<config, posted, trigger_queue, thread, task_start, start_key,
                 cancel_raised>>
  /\ UNCHANGED threadSide
  /\ UNCHANGED loadVars
  /\ UNCHANGED polls

\* Mutant: the loop of the static phase ends one tick before end_time.
StaticPhaseEndsEarly(kind) ==
  /\ pc = PhaseFn(kind)
  /\ \E d \in 0 .. MaxStall :
       /\ Sleep(d, 0)
       /\ IF now + d + 1 < end_time
          THEN /\ events' = <<>>
               /\ IF ScanCancel(events)
                  THEN PhaseCancelled(kind, now + d)
                  ELSE /\ now' = now + d
                       /\ UNCHANGED <<pc, phase_start, end_time, cycle, screen, log,
                                      expected_duration, running, outcome, exit_code>>
                       /\ UNCHANGED flashVars
          ELSE /\ PhaseCompleted(kind, now + d)
               /\ UNCHANGED events
  /\ UNCHANGED <<config, posted, trigger_queue, thread, task_start, start_key,
                 cancel_raised>>
  /\ UNCHANGED threadSide
  /\ UNCHANGED loadVars
  /\ UNCHANGED polls

\* The sleep of the previous iteration ends after d ticks; then the loop
\* condition of show_fixation or show_instruction_image and, inside the loop,
\* the poll of the events; with the part of run_task that follows a return.
StaticPhase(kind) ==
  /\ pc = PhaseFn(kind)
  /\ \E d \in 0 .. MaxStall :
       /\ Sleep(d, 0)
       /\ IF now + d < end_time
          THEN /\ events' = <<>>
               /\ IF ScanCancel(events)
                  THEN PhaseCancelled(kind, now + d)
                  ELSE /\ now' = now + d
                       /\ UNCHANGED <<pc, phase_start, end_time, cycle, screen, log,
                                      expected_duration, running, outcome, exit_code>>
                       /\ UNCHANGED flashVars
          ELSE /\ PhaseCompleted(kind, now + d)
               /\ UNCHANGED events
  /\ UNCHANGED <<config, posted, trigger_queue, thread, task_start, start_key,
                 cancel_raised>>
  /\ UNCHANGED threadSide
  /\ UNCHANGED loadVars
  /\ UNCHANGED polls

show_instruction_image == StaticPhase("Instruction")

show_fixation == StaticPhase("Fixation")

\* Mutant: the next deadline is computed from the current time,
\* last_flip_time = current_time.
FlipFromCurrentTime(current_time) ==
  IF current_time >= last_flip_time + frame_duration
  THEN /\ screen' = IF current_image THEN "checkerboard1" ELSE "checkerboard2"
       /\ current_image' = ~current_image
       /\ frame_count' = frame_count + 1
       /\ last_flip_time' = current_time
       /\ lateness' = current_time - (last_flip_time + frame_duration)
  ELSE UNCHANGED <<screen, current_image, frame_count, last_flip_time, lateness>>

\* Mutant: the image that was presented stays the current one.
FlipSameImage(current_time) ==
  IF current_time >= last_flip_time + frame_duration
  THEN /\ screen' = IF current_image THEN "checkerboard1" ELSE "checkerboard2"
       /\ current_image' = current_image
       /\ frame_count' = frame_count + 1
       /\ last_flip_time' = last_flip_time + frame_duration
       /\ lateness' = current_time - (last_flip_time + frame_duration)
  ELSE UNCHANGED <<screen, current_image, frame_count, last_flip_time, lateness>>

\* Mutant: an image is presented in every iteration, due or not.
FlipAlways(current_time) ==
  /\ screen' = IF current_image THEN "checkerboard1" ELSE "checkerboard2"
  /\ current_image' = ~current_image
  /\ frame_count' = frame_count + 1
  /\ last_flip_time' = last_flip_time + frame_duration
  /\ lateness' = current_time - (last_flip_time + frame_duration)

\* The flip of show_flashing_checkerboard at the clock reading current_time.
Flip(current_time) ==
  IF current_time >= last_flip_time + frame_duration
  THEN /\ screen' = IF current_image THEN "checkerboard1" ELSE "checkerboard2"
       /\ current_image' = ~current_image
       /\ frame_count' = frame_count + 1
       /\ last_flip_time' = last_flip_time + frame_duration
       /\ lateness' = current_time - (last_flip_time + frame_duration)
  ELSE UNCHANGED <<screen, current_image, frame_count, last_flip_time, lateness>>

\* One iteration of the loop of show_flashing_checkerboard: the sleep of the
\* previous iteration ends after d2 ticks, the loop condition is read, the
\* events are polled, current_time is read d1 ticks later and the image is
\* flipped when due; with the part of run_task that follows a return.
show_flashing_checkerboard ==
  /\ pc = "show_flashing_checkerboard"
  /\ \E d2 \in 0 .. MaxStall, d1 \in 0 .. MaxStall :
       /\ d1 + d2 <= MaxStall
       /\ Sleep(d2, d1)
       /\ IF now + d2 < end_time
          THEN /\ events' = <<>>
               /\ IF ScanCancel(events)
                  THEN /\ d1 = 0
                       /\ PhaseCancelled("Checkerboard", now + d2)
                  ELSE /\ Flip(now + d2 + d1)
                       /\ now' = now + d2 + d1
                       /\ max_gap' = Max(max_gap, d2 + d1)
                       /\ loop_time' = now + d2
                       /\ injected' = injected + Injected(d2, d1)
                       /\ UNCHANGED <<pc, phase_start, end_time, cycle, log,
                                      expected_duration, running, outcome, exit_code>>
          ELSE /\ d1 = 0
               /\ PhaseCompleted("Checkerboard", now + d2)
               /\ UNCHANGED events
  /\ UNCHANGED <<config, posted, trigger_queue, thread, task_start, start_key,
                 cancel_raised>>
  /\ UNCHANGED threadSide
  /\ UNCHANGED loadVars
  /\ UNCHANGED polls

\* The operator or the host raises an event: pygame queues it.
PostEvent ==
  /\ pc \notin {"main", "exit"}
  /\ posted < MaxPosts
  /\ posted' = posted + 1
  /\ \E e \in Events :
       /\ events' = Append(events, e)
       /\ cancel_raised' =
            IF e \in CancelEvents /\ cancel_raised = NoCancel
            THEN [pc |-> pc, cycle |-> cycle,
                  within |-> pc \in PhaseFns /\ now < end_time,
                  by |-> IF e.type = "QUIT" THEN "QUIT" ELSE e.key]
            ELSE cancel_raised
  /\ UNCHANGED <<pc, config, trigger_queue, running, thread, now, task_start,
                 phase_start, end_time, cycle, screen, log, expected_duration,
                 outcome, exit_code, stalls_left, start_key>>
  /\ UNCHANGED flashVars
  /\ UNCHANGED threadSide
  /\ UNCHANGED loadVars
  /\ UNCHANGED polls

\* KeyboardInterrupt is raised in the try block of run_task: the except
\* clause prints "Task interrupted by user." and returns False.
KeyboardInterrupt ==
  /\ pc \in {"wait_for_start"} \cup PhaseFns
  /\ Return("Interrupted", Append(log, InterruptedLine))
  /\ UNCHANGED <<config, events, posted, trigger_queue, thread, now, task_start,
                 phase_start, end_time, cycle, screen, expected_duration,
                 stalls_left, start_key, cancel_raised>>
  /\ UNCHANGED flashVars
  /\ UNCHANGED threadSide
  /\ UNCHANGED loadVars
  /\ UNCHANGED polls

\* Mutant: stop does not join the thread.
stopWithoutJoin ==
  /\ pc = "stop"
  /\ pc' = "exit"
  /\ exit_code' = ExitCode(outcome = "Completed")
  /\ UNCHANGED <<config, events, posted, trigger_queue, running, thread, now,
                 task_start, phase_start, end_time, cycle, screen, log,
                 expected_duration, outcome, stalls_left, start_key,
                 cancel_raised>>
  /\ UNCHANGED flashVars
  /\ UNCHANGED threadSide
  /\ UNCHANGED loadVars
  /\ UNCHANGED polls

\* The rest of TriggerInputHandler.stop in the finally clause of run_task:
\* thread.join(timeout=1.0) returns when the thread has ended or the timeout
\* has passed; then run_task returns and main returns the exit code.
stop ==
  /\ pc = "stop"
  /\ HasHandler => thread = "finished" \/ JoinTimesOut
  /\ pc' = "exit"
  /\ exit_code' = ExitCode(outcome = "Completed")
  /\ UNCHANGED <<config, events, posted, trigger_queue, running, thread, now,
                 task_start, phase_start, end_time, cycle, screen, log,
                 expected_duration, outcome, stalls_left, start_key,
                 cancel_raised>>
  /\ UNCHANGED flashVars
  /\ UNCHANGED threadSide
  /\ UNCHANGED loadVars
  /\ UNCHANGED polls

\* ------------------------------------------------------- the trigger thread
\* The thread is a daemon thread: it takes no step once the process has
\* exited.
threadVarsRest == <<pc, config, events, posted, running, now, task_start,
                    phase_start, end_time, cycle, screen, log,
                    expected_duration, outcome, exit_code, stalls_left,
                    start_key, cancel_raised, polls, stored, merged>>

\* Mutant: a failure to import serial or to open the port ends the thread.
SerialOpenWithoutFallback ==
  /\ thread = "serial_open"
  /\ pc # "exit"
  /\ \E result \in {"opened", "ImportError", "SerialException"} :
       IF result = "opened"
       THEN /\ thread' = "serial"
            /\ port' = "open"
            /\ UNCHANGED serial_failed
       ELSE /\ thread' = "finished"
            /\ serial_failed' = result
            /\ UNCHANGED port
  /\ UNCHANGED trigger_queue
  /\ UNCHANGED threadVarsRest
  /\ UNCHANGED flashVars

\* _read_serial_triggers imports serial and opens the port; on ImportError
\* or another exception it falls back to _read_keyboard_triggers.
SerialOpen ==
  /\ thread = "serial_open"
  /\ pc # "exit"
  /\ \E result \in {"opened", "ImportError", "SerialException"} :
       IF result = "opened"
       THEN /\ thread' = "serial"
            /\ port' = "open"
            /\ UNCHANGED serial_failed
       ELSE /\ thread' = "keyboard"
            /\ serial_failed' = result
            /\ UNCHANGED port
  /\ UNCHANGED trigger_queue
  /\ UNCHANGED threadVarsRest
  /\ UNCHANGED flashVars

\* One iteration of the loop of _read_serial_triggers that reads the trigger
\* character from the port.
SerialTrigger ==
  /\ thread = "serial"
  /\ pc # "exit"
  /\ running
  /\ trigger_queue < MaxTriggers
  /\ trigger_queue' = trigger_queue + 1
  /\ UNCHANGED thread
  /\ UNCHANGED threadSide
  /\ UNCHANGED threadVarsRest
  /\ UNCHANGED flashVars

\* Mutant: after a read error the thread stops the handler itself.
SerialReadErrorStopsHandler ==
  /\ thread = "serial"
  /\ pc # "exit"
  /\ running
  /\ serial_failed' = "ReadError"
  /\ running' = FALSE
  /\ UNCHANGED <<thread, port, trigger_queue>>
  /\ UNCHANGED <<pc, config, events, posted, now, task_start, phase_start,
                 end_time, cycle, screen, log, expected_duration, outcome,
                 exit_code, stalls_left, start_key, cancel_raised, polls,
                 stored, merged>>
  /\ UNCHANGED flashVars

\* One iteration of the loop of _read_serial_triggers in which reading
\* raises: the inner except clause prints the error and the loop goes on.
SerialReadError ==
  /\ thread = "serial"
  /\ pc # "exit"
  /\ running
  /\ serial_failed' = "ReadError"
  /\ UNCHANGED <<thread, port, trigger_queue>>
  /\ UNCHANGED threadVarsRest
  /\ UNCHANGED flashVars

\* An exception leaves the loop of _read_serial_triggers (raised outside the
\* inner try, as by the print of its except clause): the outer except clause
\* falls back to _read_keyboard_triggers with the port still open.
SerialFallback ==
  /\ thread = "serial"
  /\ pc # "exit"
  /\ running
  /\ thread' = "keyboard"
  /\ serial_failed' = "Exception"
  /\ UNCHANGED <<port, trigger_queue>>
  /\ UNCHANGED threadVarsRest
  /\ UNCHANGED flashVars

\* Mutant: the thread ends without the finally clause that closes the port.
ThreadExitWithoutClose ==
  /\ thread \in {"serial", "keyboard"}
  /\ pc # "exit"
  /\ ~running
  /\ thread' = "finished"
  /\ UNCHANGED <<trigger_queue, serial_failed, port>>
  /\ UNCHANGED threadVarsRest
  /\ UNCHANGED flashVars

\* The loops of the thread end when running is False; the finally clause of
\* _read_serial_triggers closes the port when it is open.
ThreadExit ==
  /\ thread \in {"serial", "keyboard"}
  /\ pc # "exit"
  /\ ~running
  /\ thread' = "finished"
  /\ port' = "closed"
  /\ UNCHANGED <<trigger_queue, serial_failed>>
  /\ UNCHANGED threadVarsRest
  /\ UNCHANGED flashVars

\* ----------------------------------------------------------- specifications
InitAt(p, cfg, file, m) ==
  /\ pc = p
  /\ config = cfg
  /\ events = <<>>
  /\ posted = 0
  /\ trigger_queue = 0
  /\ running = FALSE
  /\ thread = "none"
  /\ now = 0
  /\ task_start = 0
  /\ phase_start = 0
  /\ end_time = 0
  /\ last_flip_time = 0
  /\ frame_count = 0
  /\ current_image = TRUE
  /\ cycle = 0
  /\ screen = "none"
  /\ log = <<>>
  /\ expected_duration = None
  /\ outcome = "Running"
  /\ exit_code = None
  /\ stalls_left = 0
  /\ max_gap = 0
  /\ loop_time = 0
  /\ lateness = 0
  /\ injected = 0
  /\ start_key = ""
  /\ cancel_raised = NoCancel
  /\ port = "closed"
  /\ serial_failed = ""
  /\ polls = 0
  /\ stored = file
  /\ merged = m

\* The state in which main has the configuration cfg from load_config.
InitWith(cfg) == InitAt("main", cfg, FieldsOf(cfg), FieldsOf(cfg))

\* The whole program, started manually or by the trigger key, under the
\* default configuration and under one without instruction time; the polling
\* loops are never stalled.
Init ==
  \E instr \in {0, DEFAULT_INSTRUCTION_DURATION} :
    InitWith([DEFAULT_CONFIG EXCEPT !.instruction_duration = instr])

Next ==
  \/ main
  \/ run_task
  \/ show_message
  \/ wait_for_start
  \/ show_instruction_image
  \/ show_fixation
  \/ show_flashing_checkerboard
  \/ PostEvent
  \/ ThreadExit
  \/ stop

Spec == Init /\ [][Next]_vars

\* The program up to the return of wait_for_start, for every start mode and
\* trigger character, with the keyboard or the serial trigger transport.
InitGate ==
  \E ch \in TriggerChars, mode \in StartModes, serial \in BOOLEAN :
    InitWith(Config(ch, mode, serial, DEFAULT_INSTRUCTION_DURATION))

NextGate ==
  \/ main
  \/ run_task
  \/ show_message
  \/ wait_for_start
  \/ PostEvent
  \/ SerialOpen
  \/ SerialTrigger
  \/ SerialReadError
  \/ SerialFallback
  \/ ThreadExit
  \/ stop

SpecGate == InitGate /\ [][NextGate]_vars

\* The lines printed, without stalls, in the cycles 1 .. c.
RECURSIVE CyclesLog(_)
CyclesLog(c) ==
  IF c = 0 THEN <<>>
  ELSE CyclesLog(c - 1) \o
       << BeginLine("Fixation", c, FIXATION_DURATION),
          CompletedLine("Fixation", c, FIXATION_DURATION, Ticks(FIXATION_DURATION)),
          BeginLine("Checkerboard", c, CHECKERBOARD_DURATION),
          CompletedLine("Checkerboard", c, CHECKERBOARD_DURATION,
                        Ticks(CHECKERBOARD_DURATION)) >>

LogBeforeCheckerboard(c) ==
  << StartedLine("SPACEBAR"),
     BeginLine("Instruction", 0, DEFAULT_INSTRUCTION_DURATION),
     CompletedLine("Instruction", 0, DEFAULT_INSTRUCTION_DURATION,
                   Ticks(DEFAULT_INSTRUCTION_DURATION)) >>
  \o CyclesLog(c - 1) \o
  << BeginLine("Fixation", c, FIXATION_DURATION),
     CompletedLine("Fixation", c, FIXATION_DURATION, Ticks(FIXATION_DURATION)),
     BeginLine("Checkerboard", c, CHECKERBOARD_DURATION) >>

\* The state in which run_task calls show_flashing_checkerboard in cycle c,
\* after a session started with the space key and not stalled so far, with
\* `budget` stalls to come.
AtCheckerboard(c, budget) ==
  LET t == Ticks(DEFAULT_INSTRUCTION_DURATION
                 + (c - 1) * (FIXATION_DURATION + CHECKERBOARD_DURATION)
                 + FIXATION_DURATION)
  IN /\ pc = "show_flashing_checkerboard"
     /\ config = DEFAULT_CONFIG
     /\ events = <<>>
     /\ posted = 1
     /\ trigger_queue = 0
     /\ running = TRUE
     /\ thread = "keyboard"
     /\ now = t
     /\ task_start = 0
     /\ phase_start = t
     /\ end_time = t + Ticks(CHECKERBOARD_DURATION)
     /\ last_flip_time = t
     /\ frame_count = 0
     /\ current_image = TRUE
     /\ cycle = c
     /\ screen = "fixation"
     /\ log = LogBeforeCheckerboard(c)
     /\ expected_duration = None
     /\ outcome = "Running"
     /\ exit_code = None
     /\ stalls_left = budget
     /\ max_gap = 0
     /\ loop_time = t
     /\ lateness = 0
     /\ injected = 0
     /\ start_key = "K_SPACE"
     /\ cancel_raised = NoCancel
     /\ port = "closed"
     /\ serial_failed = ""
     /\ polls = 0
     /\ stored = FieldsOf(DEFAULT_CONFIG)
     /\ merged = FieldsOf(DEFAULT_CONFIG)

\* The state in which run_task calls show_instruction_image, after a session
\* with the instruction time instr was started with the space key, with
\* `budget` stalls to come.
AtInstruction(instr, budget) ==
  /\ pc = "show_instruction_image"
  /\ config = [DEFAULT_CONFIG EXCEPT !.instruction_duration = instr]
  /\ events = <<>>
  /\ posted = 1
  /\ trigger_queue = 0
  /\ running = TRUE
  /\ thread = "keyboard"
  /\ now = 0
  /\ task_start = 0
  /\ phase_start = 0
  /\ end_time = Ticks(instr)
  /\ last_flip_time = 0
  /\ frame_count = 0
  /\ current_image = TRUE
  /\ cycle = 0
  /\ screen = "instruction"
  /\ log = << StartedLine("SPACEBAR"), BeginLine("Instruction", 0, instr) >>
  /\ expected_duration = None
  /\ outcome = "Running"
  /\ exit_code = None
  /\ stalls_left = budget
  /\ max_gap = 0
  /\ loop_time = 0
  /\ lateness = 0
  /\ injected = 0
  /\ start_key = "K_SPACE"
  /\ cancel_raised = NoCancel
  /\ port = "closed"
  /\ serial_failed = ""
  /\ polls = 0
  /\ stored = FieldsOf([DEFAULT_CONFIG EXCEPT !.instruction_duration = instr])
  /\ merged = FieldsOf([DEFAULT_CONFIG EXCEPT !.instruction_duration = instr])

\* The instruction phase and the fixation phase of cycle 1, with up to
\* MaxStalls stalled iterations of up to MaxStall ticks.
InitStatic ==
  \E instr \in {0, DEFAULT_INSTRUCTION_DURATION} : AtInstruction(instr, MaxStalls)

NextStatic ==
  \/ show_instruction_image
  \/ show_fixation
  \/ PostEvent
  \/ ThreadExit
  \/ stop

SpecStatic == InitStatic /\ [][NextStatic]_vars

\* The session from the return of wait_for_start on, with one more event
\* raised, under nominal scheduling.
InitLive ==
  \E instr \in {0, DEFAULT_INSTRUCTION_DURATION} : AtInstruction(instr, 0)

NextLive ==
  \/ show_instruction_image
  \/ show_fixation
  \/ show_flashing_checkerboard
  \/ PostEvent
  \/ ThreadExit
  \/ stop

\* An iteration of the loop of a phase in which the clock has advanced or
\* the phase has returned.
PhaseProgress ==
  /\ show_instruction_image \/ show_fixation \/ show_flashing_checkerboard
  /\ now' > now \/ pc' # pc

\* time.sleep returns and time.perf_counter advances; the finally clause of
\* run_task calls stop; the loop of the thread reads running every 0.1 s.
FairLive ==
  /\ WF_vars(PhaseProgress)
  /\ WF_vars(stop)
  /\ WF_vars(ThreadExit)

SpecLive == InitLive /\ [][NextLive]_vars /\ FairLive

\* The lines printed before show_fixation is called in cycle c.
LogBeforeFixation(c) ==
  << StartedLine("SPACEBAR"),
     BeginLine("Instruction", 0, DEFAULT_INSTRUCTION_DURATION),
     CompletedLine("Instruction", 0, DEFAULT_INSTRUCTION_DURATION,
                   Ticks(DEFAULT_INSTRUCTION_DURATION)) >>
  \o CyclesLog(c - 1) \o
  << BeginLine("Fixation", c, FIXATION_DURATION) >>

\* The state in which run_task calls show_fixation in cycle c, after a
\* session started with the space key and not stalled so far, with `budget`
\* stalls to come.
AtFixation(c, budget) ==
  LET t == Ticks(DEFAULT_INSTRUCTION_DURATION
                 + (c - 1) * (FIXATION_DURATION + CHECKERBOARD_DURATION))
  IN /\ pc = "show_fixation"
     /\ config = DEFAULT_CONFIG
     /\ events = <<>>
     /\ posted = 1
     /\ trigger_queue = 0
     /\ running = TRUE
     /\ thread = "keyboard"
     /\ now = t
     /\ task_start = 0
     /\ phase_start = t
     /\ end_time = t + Ticks(FIXATION_DURATION)
     /\ last_flip_time = t - Ticks(CHECKERBOARD_DURATION)
     /\ frame_count = 0
     /\ current_image = TRUE
     /\ cycle = c
     /\ screen = "fixation"
     /\ log = LogBeforeFixation(c)
     /\ expected_duration = None
     /\ outcome = "Running"
     /\ exit_code = None
     /\ stalls_left = budget
     /\ max_gap = 0
     /\ loop_time = t
     /\ lateness = 0
     /\ injected = 0
     /\ start_key = "K_SPACE"
     /\ cancel_raised = NoCancel
     /\ port = "closed"
     /\ serial_failed = ""
     /\ polls = 0
     /\ stored = FieldsOf(DEFAULT_CONFIG)
     /\ merged = FieldsOf(DEFAULT_CONFIG)

\* The last cycle of the session to its end, with no event raised and with
\* up to MaxStalls stalled iterations of up to MaxStall ticks in the
\* fixation and in the flashing phase.
InitDrift == AtFixation(NUM_CYCLES, MaxStalls)

NextDrift ==
  \/ show_fixation
  \/ show_flashing_checkerboard
  \/ ThreadExit
  \/ stop

SpecDrift == InitDrift /\ [][NextDrift]_vars

\* The flashing phase of the first and of the last cycle, with up to
\* MaxStalls stalled iterations of up to MaxStall ticks.
InitFlash == \E c \in {1, NUM_CYCLES} : AtCheckerboard(c, MaxStalls)

NextFlash ==
  \/ show_flashing_checkerboard
  \/ PostEvent
  \/ ThreadExit
  \/ stop

SpecFlash == InitFlash /\ [][NextFlash]_vars

\* The ways run_task returns once the trigger thread was started, with the
\* keyboard and the serial transport: from the start gate and the instruction
\* phase, and from the flashing phase of the first and of the last cycle, by
\* completion, cancel and interrupt.
InitStop ==
  \/ \E serial \in BOOLEAN :
       InitWith([DEFAULT_CONFIG EXCEPT !.use_serial_port = serial])
  \/ \E c \in {1, NUM_CYCLES} : AtCheckerboard(c, 0)

\* The program from the start of main, for every start mode, with the
\* keyboard and the serial transport.
InitQueue ==
  \E mode \in StartModes, serial \in BOOLEAN :
    InitWith(Config("=", mode, serial, DEFAULT_INSTRUCTION_DURATION))

NextStop ==
  \/ main
  \/ run_task
  \/ show_message
  \/ wait_for_start
  \/ show_instruction_image
  \/ show_flashing_checkerboard
  \/ PostEvent
  \/ KeyboardInterrupt
  \/ SerialOpen
  \/ SerialTrigger
  \/ SerialReadError
  \/ SerialFallback
  \/ ThreadExit
  \/ stop

SpecStop == InitStop /\ [][NextStop]_vars

\* The program from the start of main to the end of the instruction phase,
\* with the trigger thread.
NextQueue ==
  \/ main
  \/ run_task
  \/ show_message
  \/ wait_for_start
  \/ show_instruction_image
  \/ PostEvent
  \/ SerialOpen
  \/ SerialTrigger
  \/ SerialReadError
  \/ SerialFallback
  \/ ThreadExit
  \/ stop

SpecQueue == InitQueue /\ [][NextQueue]_vars

\* The fields of the configuration files of the model: well-formed values,
\* values of a wrong type, null and values out of range.
StoredValues ==
  [trigger_character |-> {JStr("="), JStr("ab"), JNull, JNum(5)},
   start_mode |-> {Absent, JStr("trigger"), JStr("BOTH"), JStr("bogus"), JNull, JNum(5)},
   color_scheme |-> {JStr("black_white"), JStr("bogus"), JNull, JNum(5)},
   instruction_duration |-> {JNum(0), JNum(0 - 1), JStr("abc"), JStr("5"), JNull}]

\* The program from the call of load_config to the return of wait_for_start,
\* for the configuration files of the model.
InitConfig ==
  \E tc \in StoredValues.trigger_character, sm \in StoredValues.start_mode,
     cs \in StoredValues.color_scheme, dur \in StoredValues.instruction_duration :
    InitAt("load_config", DEFAULT_CONFIG,
           [trigger_character |-> tc, start_mode |-> sm, color_scheme |-> cs,
            instruction_duration |-> dur],
           DefaultFields)

NextConfig ==
  \/ load_config
  \/ main
  \/ run_task
  \/ show_message
  \/ wait_for_start
  \/ PostEvent
  \/ ThreadExit
  \/ stop

SpecConfig == InitConfig /\ [][NextConfig]_vars


NotAtCheckerboard == ~ \E c \in {1, NUM_CYCLES} : AtCheckerboard(c, 0)


\* =================================================================== claims
\* The phases a session presents, in order: the instruction screen, then
\* fixation and checkerboard of the cycles 1 .. NUM_CYCLES.
ExpectedOrder ==
  <<Phase("Instruction", 0)>> \o
  [i \in 1 .. 2 * NUM_CYCLES |->
     Phase(IF i % 2 = 1 THEN "Fixation" ELSE "Checkerboard", (i + 1) \div 2)]

IsBegin(e) == e.ev = "begin"
IsCompleted(e) == e.ev = "completed"
IsCancelled(e) == e.ev = "cancelled"

\* The phases of the log lines that satisfy Test, in the order of the log.
PhasesOf(lg, Test(_)) ==
  LET lines == SelectSeq(lg, Test)
  IN [i \in 1 .. Len(lines) |-> Phase(lines[i].kind, lines[i].cycle)]

Begun == PhasesOf(log, IsBegin)
Completed == PhasesOf(log, IsCompleted)

IsPrefix(s, t) == Len(s) <= Len(t) /\ s = SubSeq(t, 1, Len(s))

Count(kind, phases) == Cardinality({i \in 1 .. Len(phases) : phases[i].kind = kind})

Started == start_key # ""

\* C1: when no cancel key or quit event is raised, the phases begin in the
\* order Instruction, then (Fixation, Checkerboard) of the cycles 1 to
\* NUM_CYCLES: at every moment the phases begun so far are an initial part of
\* that order and every phase but the one in progress was completed, and a
\* started session ends Completed after all of them.
C1_PhaseOrder ==
  cancel_raised = NoCancel /\ Started =>
    /\ IsPrefix(Begun, ExpectedOrder)
    /\ IsPrefix(Completed, Begun)
    /\ Len(Completed) >= Len(Begun) - 1
    /\ pc \in PhaseFns => Len(Completed) = Len(Begun) - 1 /\ Last(Begun) = Phase(
                            CHOOSE k \in {"Instruction", "Fixation", "Checkerboard"} :
                              PhaseFn(k) = pc, cycle)
    /\ pc = "exit" => outcome = "Completed" /\ Completed = ExpectedOrder

C1_Witness ==
  /\ pc = "exit" /\ outcome = "Completed" /\ cancel_raised = NoCancel
  /\ Begun = ExpectedOrder

\* C2: a cancel key or quit event raised within a phase, before its
\* deadline, ends the session Cancelled without the next phase being
\* entered: the phase it was raised in stays the last one begun and
\* presented, and the session does not complete.
C2_CancelHaltsPhase ==
  cancel_raised.within =>
    /\ Last(Begun) = Phase(CHOOSE k \in {"Instruction", "Fixation", "Checkerboard"} :
                             PhaseFn(k) = cancel_raised.pc, cancel_raised.cycle)
    /\ outcome \in {"Running", "Cancelled"}

\* C3: wait_for_start returns True in manual mode only on the space key and
\* in trigger mode never on the space key, whatever the trigger character.
C3_StartHonoursMode ==
  Started =>
    /\ config.start_mode = "manual" => start_key = "K_SPACE"
    /\ config.start_mode = "trigger" => start_key # "K_SPACE"

\* show_flashing_checkerboard returned True and no later call of it began.
FlashReturnedTrue ==
  /\ pc # "show_flashing_checkerboard"
  /\ outcome # "Cancelled"
  /\ Count("Checkerboard", Completed) > 0

FrameCountInTolerance == Abs(frame_count - expected_frames) <= 2

C5_AdditiveSchedule ==
  pc = "show_flashing_checkerboard" =>
    /\ last_flip_time = phase_start + frame_count * frame_duration
    /\ lateness >= 0
    /\ lateness <= injected

C5_Witness ==
  /\ pc = "show_flashing_checkerboard"
  /\ frame_count > expected_frames - 10
  /\ stalls_left = 0 /\ MaxStalls > 0
  /\ lateness > frame_duration

\* C6: when the cancel key is pressed during the checkerboard of cycle 2 the
\* session ends Cancelled; the log holds as completed exactly the
\* instruction phase, fixation 1, checkerboard 1 and fixation 2, records
\* checkerboard 2 as cancelled with its actual duration, and has no line of
\* cycle 3 or later.
C6_CancelInSecondCheckerboard ==
  /\ cancel_raised.by = "K_ESCAPE"
  /\ cancel_raised.pc = "show_flashing_checkerboard"
  /\ cancel_raised.cycle = 2
  /\ cancel_raised.within
  /\ pc = "exit"
  => /\ outcome = "Cancelled"
     /\ Completed = SubSeq(ExpectedOrder, 1, 4)
     /\ \A i \in 1 .. Len(log) : log[i].cycle < 3
     /\ IsCancelled(Last(log))
     /\ Last(log).kind = "Checkerboard"
     /\ Last(log).cycle = 2
     /\ Last(log).actual = now - phase_start

\* C7: under the default configuration (5 cycles, 20 s fixation, 20 s
\* checkerboard, 10 s instruction, start mode both) a session in which no
\* cancel is raised ends Completed after 1 instruction phase, 5 fixation
\* phases and 5 checkerboard phases and reports 210 s as expected duration.
C7_DefaultSession ==
  /\ config = DEFAULT_CONFIG
  /\ cancel_raised = NoCancel
  /\ Started
  /\ pc = "exit"
  => /\ outcome = "Completed"
     /\ Count("Instruction", Completed) = 1
     /\ Count("Fixation", Completed) = 5
     /\ Count("Checkerboard", Completed) = 5
     /\ Len(Begun) = 11
     /\ expected_duration = 210
     /\ \E i \in 1 .. Len(log) :
          log[i].ev = "task_completed" /\ log[i].expected = 210

C7_Witness ==
  /\ config = DEFAULT_CONFIG /\ cancel_raised = NoCancel
  /\ pc = "exit" /\ outcome = "Completed" /\ expected_duration = 210
  /\ now - task_start = Ticks(210 + 3)

\* C8: the exit code is 0 exactly when every phase of the session ran to
\* completion; it is not 0 when the session was cancelled, before the start
\* or in a phase, when the checkerboard images could not be loaded and when
\* the display could not be initialised.
C8_ExitCode ==
  pc = "exit" =>
    /\ exit_code = 0 <=> Completed = ExpectedOrder
    /\ exit_code = 0 <=> outcome = "Completed"
    /\ outcome \in {"Cancelled", "AssetError", "DisplayError"} => exit_code # 0
    /\ exit_code # None

C8_Witness ==
  /\ pc = "exit" /\ outcome = "Cancelled" /\ exit_code # 0
  /\ Len(Begun) > 2 * NUM_CYCLES

\* C9: a session that ends Cancelled exits with a code that is not 0 and
\* differs from the code of a hard failure (no checkerboard images, no
\* display, unexpected exception).
C9_CancelledCodeDistinct ==
  pc = "exit" /\ outcome = "Cancelled" =>
    exit_code # EXIT_OK /\ exit_code # EXIT_FAIL /\ exit_code # ExitCode(FALSE)

\* An event that by itself makes wait_for_start return False / return True.
IsCancelCondition(e) == ScanCancel(<<e>>)
IsStartCondition(e) ==
  ScanStart(<<e>>, config.start_mode, config.trigger_character).result
    \in {"SPACEBAR", "TRIGGER_CHAR"}

\* C10: when one poll of wait_for_start gets both a cancel condition (cancel
\* key or quit) and a start condition (space key, trigger character key or
\* queued trigger), in any order, the result is Cancelled, never Started.
C10_CancelHasPriority ==
  [][ /\ pc = "wait_for_start"
      /\ events' = <<>>
      /\ \E i \in 1 .. Len(events) : IsCancelCondition(events[i])
      /\ \/ \E i \in 1 .. Len(events) : IsStartCondition(events[i])
         \/ /\ config.start_mode \in {"trigger", "both"}
            /\ HasHandler
            /\ trigger_queue > 0
      => outcome' = "Cancelled" /\ start_key' = "" ]_vars


\* C11: with instruction_duration 0 the instruction phase is skipped after
\* the start: the instruction image is never presented, no instruction line
\* is logged and the first phase is the fixation of cycle 1; with a positive
\* instruction_duration the instruction phase is the first phase.
C11_ZeroInstructionSkipped ==
  Started =>
    IF config.instruction_duration = 0
    THEN /\ \A i \in 1 .. Len(log) : log[i].kind # "Instruction"
         /\ screen # "instruction"
         /\ Begun[1] = Phase("Fixation", 1)
    ELSE Begun[1] = Phase("Instruction", 0)


\* TriggerInputHandler.start was called: the thread exists.
HandlerStarted == thread # "none"

FallbackFailures == {"ImportError", "SerialException", "Exception"}

IsTriggerKey(e) ==
  e.type = "KEYDOWN" /\ e.unicode # ""
    /\ Lower(e.unicode) = Lower(config.trigger_character)

Malformed(f, v) ==
  CASE f = "trigger_character" -> v.t # "str"
    [] f = "start_mode" -> v.t # "str" \/ Lower(v.s) \notin {"manual", "trigger", "both"}
    [] f = "color_scheme" -> v.t # "str" \/ Lower(v.s) \notin ColorSchemes
    [] f = "instruction_duration" -> FloatRaises(v) \/ Float(v) < 0

\* The value the claim gives a field of the file: its documented default
\* when it is absent or malformed, its stored value otherwise.
Corrected(f, v) ==
  IF v = Absent \/ Malformed(f, v) THEN DefaultFields[f]
  ELSE IF f = "instruction_duration" THEN JNum(Float(v))
  ELSE v

\* C16: for every stored configuration, each malformed field is replaced by
\* its documented default while the other fields keep their stored values,
\* and neither load_config nor the start gate fails with an unhandled error.
C16_MalformedFieldsCorrected ==
  /\ outcome # "Crashed"
  /\ pc # "load_config" => \A f \in Fields : merged[f] = Corrected(f, stored[f])


\* ---------------------------------------------------------------------- C17
\* The steps of a session whose checkerboard images could not be loaded.
AssetFailureStep ==
  \/ pc = "run_task" /\ pc' = "show_message"
  \/ pc = "show_message"
  \/ outcome = "AssetError"

\* C17: when a checkerboard image cannot be loaded the session never enters
\* the start gate or a phase and the trigger thread is never started; the
\* error message is presented, run_task returns False and main returns a
\* non-zero exit code.
C17_AssetFailureIsFatal ==
  [][AssetFailureStep =>
       /\ pc' \in {"show_message", "exit"}
       /\ thread' = "none" /\ ~running' /\ trigger_queue' = 0
       /\ log' = <<>> /\ start_key' = "" /\ cycle' = 0
       /\ screen' = "error_message"
       /\ pc' = "exit" => outcome' = "AssetError" /\ exit_code' = EXIT_FAIL
       /\ pc' = "show_message" => outcome' = "Running"]_vars

C17_Witness ==
  /\ pc = "exit" /\ outcome = "AssetError" /\ exit_code = EXIT_FAIL
  /\ screen = "error_message" /\ thread = "none" /\ HasHandler


\* ---------------------------------------------------------------------- C18
\* What a poll of wait_for_start returns on: a cancel key or quit event, a
\* start condition the start mode enables, or a queued trigger.
GateCause ==
  \/ \E i \in 1..Len(events) : events[i] \in CancelEvents \/ IsStartCondition(events[i])
  \/ /\ Lower(config.start_mode) \in {"trigger", "both"}
     /\ HasHandler /\ trigger_queue > 0

\* C18: wait_for_start has no timeout: it returns only in a poll that gets a
\* cancel key, a quit event or a start condition the start mode enables; a
\* poll that gets none of these stays in the loop, however many polls went
\* before it.
C18_GateHasNoTimeout ==
  [][pc = "wait_for_start" =>
       /\ pc' # "wait_for_start" => GateCause
       /\ ~GateCause => pc' = "wait_for_start" /\ outcome' = "Running"
                          /\ start_key' = "" /\ log' = log]_vars

C18_Witness ==
  /\ pc = "wait_for_start" /\ polls = MaxPolls /\ posted > 0
  /\ events = <<>> /\ outcome = "Running" /\ start_key = ""


\* ---------------------------------------------------------------------- C19
\* C19: in the flashing phase the first checkerboard image is presented in
\* the first loop iteration, at the phase start: once the clock of the loop
\* has passed the phase start an image was presented, and the image of the
\* previous phase is not on the screen.
C19_FirstImageAtPhaseStart ==
  pc = "show_flashing_checkerboard" /\ now > phase_start =>
    /\ frame_count > 0
    /\ screen \in {"checkerboard1", "checkerboard2"}


\* ---------------------------------------------------------------------- C20
\* The image of the n-th presentation of a flashing phase: A for odd n.
NthImage(n) == IF n % 2 = 1 THEN "checkerboard1" ELSE "checkerboard2"

\* C20: in the flashing phase the presented images alternate, starting with
\* image A: the n-th presentation is A for odd n and B for even n and never
\* the image presented before it; a loop iteration presents at most one
\* image; each presentation advances the deadline by one half-period, and
\* without a presentation the deadline and the screen stay as they are.
C20_ImagesAlternate ==
  [][pc = "show_flashing_checkerboard" =>
       /\ frame_count' \in {frame_count, frame_count + 1}
       /\ frame_count' = frame_count + 1 =>
            /\ screen' = NthImage(frame_count')
            /\ screen' # screen
            /\ last_flip_time' = last_flip_time + frame_duration
            /\ pc' = pc
       /\ frame_count' = frame_count =>
            /\ last_flip_time' = last_flip_time
            /\ pc' = pc => screen' = screen]_vars

C20_Witness ==
  /\ pc = "show_flashing_checkerboard"
  /\ frame_count = 4 /\ screen = "checkerboard2"
  /\ last_flip_time = phase_start + 4 * frame_duration
  /\ max_gap > 1


\* ---------------------------------------------------------------------- C21
StaticFns == {"show_instruction_image", "show_fixation"}

\* The image show_instruction_image or show_fixation presents.
StaticImage == IF pc = "show_fixation" THEN "fixation" ELSE "instruction"

\* The duration of the static phase that is running.
StaticDuration ==
  IF pc = "show_fixation" THEN FIXATION_DURATION ELSE config.instruction_duration

\* C21: a static phase presents its image once: the image is on the screen
\* through the phase and no iteration of the loop presents anything.  The
\* phase returns True only at a clock reading at which its duration has
\* elapsed, and at the first one: the reading before it was before the
\* deadline, so the overshoot is less than the time of one iteration, and
\* the actual time it logs is the elapsed one.  The phase returns False in
\* the poll that gets a cancel key or a quit event, before the deadline, and
\* no iteration that polled one stays in the loop.
C21_StaticPhaseTiming ==
  [][(pc \in StaticFns /\ posted' = posted /\ thread' = thread) =>
       /\ screen = StaticImage
       /\ pc' = pc => /\ screen' = screen
                      /\ now' < end_time
                      /\ ~ScanCancel(events)
       /\ outcome' = "Cancelled" =>
            /\ ScanCancel(events)
            /\ now' < end_time
            /\ pc' = "stop"
            /\ log' = Append(log, CancelledLine(
                         IF pc = "show_fixation" THEN "Fixation" ELSE "Instruction"))
       /\ (pc' # pc /\ outcome' # "Cancelled") =>
            /\ now' - phase_start >= Ticks(StaticDuration)
            /\ (now < end_time \/ now = phase_start)
            /\ now' - end_time <= now' - now
            /\ log'[Len(log) + 1].ev = "completed"
            /\ log'[Len(log) + 1].actual = now' - phase_start
            /\ outcome' = "Running"]_vars

\* Fixation 1 completed more than a tick late, after stalled iterations.
C21_Witness ==
  /\ pc = "show_flashing_checkerboard"
  /\ stalls_left = 0
  /\ \E i \in 1 .. Len(log) :
       /\ log[i].ev = "completed" /\ log[i].kind = "Fixation"
       /\ log[i].actual > Ticks(FIXATION_DURATION) + 1


\* ---------------------------------------------------------------------- C22
Terminal == outcome \in {"Completed", "Cancelled"}

\* A cancel key or a quit event is pending in the event queue.
CancelPending == \E i \in 1 .. Len(events) : events[i] \in CancelEvents

\* Cancelled can be reached from a state of a phase: when a cancel is pending
\* the next iteration can return False, and otherwise a cancel can be raised
\* (while the events of the model are not used up).  The only state of a
\* phase at its deadline is the start of an instruction phase of no time,
\* which fixation 1 follows.
CancelReachable ==
  /\ now < end_time /\ CancelPending => ENABLED (NextLive /\ outcome' = "Cancelled")
  /\ ~CancelPending /\ posted < MaxPosts =>
       ENABLED (PostEvent /\ events'[Len(events')] \in CancelEvents /\ pc' = pc)
  /\ now >= end_time =>
       /\ pc = "show_instruction_image" /\ now = phase_start
       /\ ENABLED (NextLive /\ pc' = "show_fixation" /\ now' < end_time'
                            /\ events' = events)

\* C22: once wait_for_start has returned True and the clock keeps advancing,
\* the session ends Completed or Cancelled, whatever events are raised;
\* after either no phase runs, nothing is presented or logged and the
\* outcome stays; and Cancelled can be reached from every state of a phase.
C22_SessionTerminates ==
  /\ (Started /\ outcome = "Running") ~> (Terminal /\ pc = "exit")
  /\ [][Terminal => /\ outcome' = outcome
                    /\ pc' \in {"stop", "exit"}
                    /\ screen' = screen /\ log' = log /\ cycle' = cycle
                    /\ frame_count' = frame_count]_vars
  /\ [](outcome = "Running" => pc \in PhaseFns /\ CancelReachable)

C22_Witness ==
  /\ pc = "exit" /\ outcome = "Cancelled"
  /\ cancel_raised.pc = "show_flashing_checkerboard" /\ cancel_raised.cycle = NUM_CYCLES
  /\ thread = "finished"


\* ---------------------------------------------------------------------- C23
\* C23: however the steps of the trigger thread and the polls of
\* wait_for_start interleave, check_trigger does not block (a poll can
\* always be made, with an empty queue too), takes at most one trigger
\* from the queue and returns True exactly when it took one; the queue
\* changes in no other way than by one trigger the thread puts and one
\* trigger a check takes, so that none is lost or taken twice.
C23_CheckTriggerTakesOne ==
  /\ [][/\ trigger_queue' \in {trigger_queue - 1, trigger_queue, trigger_queue + 1}
        /\ trigger_queue' = trigger_queue - 1 =>
             /\ pc = "wait_for_start" /\ pc' \in PhaseFns
             /\ start_key' = "SERIAL"
             /\ log'[Len(log) + 1] = StartedLine("SERIAL")
        /\ (pc = "wait_for_start" /\ start_key' = "SERIAL") =>
             trigger_queue' = trigger_queue - 1
        /\ trigger_queue' = trigger_queue + 1 =>
             thread = "serial" /\ port = "open" /\ pc' = pc]_vars
  /\ [](trigger_queue >= 0)
  /\ [](pc = "wait_for_start" => ENABLED wait_for_start)

\* The session was started by a check that took a trigger, and a trigger is
\* in the queue.
C23_Witness ==
  /\ start_key = "SERIAL" /\ trigger_queue = 1 /\ pc \in PhaseFns
  /\ thread = "serial" /\ polls = 0


\* ---------------------------------------------------------------------- C24
\* The steps of the trigger thread and the steps of the engine (main thread).
ThreadStep == SerialOpen \/ SerialTrigger \/ SerialReadError \/ SerialFallback \/ ThreadExit

EngineStep ==
  \/ main \/ run_task \/ show_message \/ wait_for_start
  \/ show_instruction_image \/ show_fixation \/ show_flashing_checkerboard
  \/ KeyboardInterrupt \/ stop

\* What the trigger thread can do next: which of its steps its conditions
\* allow.
ThreadCan ==
  << ENABLED SerialOpen, ENABLED SerialTrigger, ENABLED SerialReadError,
     ENABLED SerialFallback, ENABLED ThreadExit >>

\* C24: the trigger thread and the engine share no mutable state other than
\* the trigger queue: a step of the engine that leaves the queue as it is
\* (and does not start the thread or end the process) does not change what
\* the thread can do, and a step of the thread changes nothing but the
\* queue and the thread's own state.
C24_OnlyQueueShared ==
  [][/\ (EngineStep /\ trigger_queue' = trigger_queue /\ thread' = thread
                    /\ pc' # "exit") => ThreadCan' = ThreadCan
     /\ ThreadStep => UNCHANGED threadVarsRest]_vars


\* The trigger thread and the engine share the trigger queue, which the
\* thread puts to and the engine takes from, and the running flag, which
\* only the engine writes (start, stop) and the thread reads in the
\* conditions of its loops.  A step of the thread changes the queue and the
\* thread's own state and nothing else; a step of the engine changes neither
\* the port nor the failure of the thread, and the state of the thread only
\* when it starts it; and a step of the engine that leaves the queue and the
\* flag as they are does not change what the thread can do.
C24_QueueAndRunningShared ==
  [][/\ ThreadStep => /\ UNCHANGED threadVarsRest
                      /\ trigger_queue' >= trigger_queue
     /\ EngineStep => /\ UNCHANGED threadSide
                      /\ trigger_queue' <= trigger_queue
                      /\ thread' # thread =>
                           pc = "run_task" /\ thread = "none" /\ running'
     /\ running' # running => EngineStep
     /\ (EngineStep /\ trigger_queue' = trigger_queue /\ thread' = thread
                    /\ pc' # "exit" /\ running' = running) => ThreadCan' = ThreadCan]_vars

\* The engine has stopped the handler and the serial thread has not yet
\* seen it.
C24_Witness ==
  /\ pc = "stop" /\ ~running /\ thread = "serial" /\ port = "open"
  /\ ENABLED ThreadExit


\* ---------------------------------------------------------------------- C25
\* A step of the flashing loop that presents an image.
FlipStep == pc = "show_flashing_checkerboard" /\ frame_count' = frame_count + 1

\* Through the flashing phase the deadline minus the phase start is the
\* number of flips made times the half-period and the number of flips does
\* not exceed expected_frames.
FlipCount ==
  pc = "show_flashing_checkerboard" =>
    /\ last_flip_time - phase_start = frame_count * frame_duration
    /\ frame_count <= expected_frames

\* When the phase ends no image is presented: the flips that are pending
\* are dropped.
PendingFlipsDropped ==
  (pc = "show_flashing_checkerboard" /\ pc' # pc) =>
    /\ frame_count' = frame_count
    /\ last_flip_time' = last_flip_time
    /\ screen' # screen => screen' \in {"fixation", "complete_message"}

\* C25: through the flashing phase the deadline minus the phase start is the
\* number of flips made times the half-period; a flip happens only at a
\* clock reading that is at least one half-period past the previous deadline
\* and before the phase end; the number of flips never exceeds
\* expected_frames, and the flips that are pending when the phase ends are
\* not presented.
C25_FlipsBeforePhaseEnd ==
  /\ []FlipCount
  /\ [][FlipStep => /\ now' >= last_flip_time + frame_duration
                    /\ now' < end_time]_vars
  /\ [][PendingFlipsDropped]_vars

\* As C25, with the phase end compared to the clock reading of the loop
\* condition: a flip happens only in an iteration whose loop condition read
\* the clock before the phase end, at a later reading of the clock that is
\* at least one half-period past the previous deadline and can be at or
\* past the phase end.
C25_FlipsInLoop ==
  /\ []FlipCount
  /\ [][FlipStep => /\ now' >= last_flip_time + frame_duration
                    /\ loop_time' < end_time
                    /\ now <= loop_time' /\ loop_time' <= now']_vars
  /\ [][PendingFlipsDropped]_vars

\* An image was presented at a clock reading past the phase end, and flips
\* are pending.
C25_Witness ==
  /\ pc = "show_flashing_checkerboard"
  /\ now >= end_time /\ loop_time < end_time
  /\ lateness > 0
  /\ frame_count < expected_frames - 1

\* ---------------------------------------------------------------------- C26
\* The phase whose function is running.
RunningKind ==
  CASE pc = "show_instruction_image" -> "Instruction"
    [] pc = "show_fixation" -> "Fixation"
    [] pc = "show_flashing_checkerboard" -> "Checkerboard"

\* The sum of the actual durations of the completed phases in the log.
RECURSIVE SumActual(_)
SumActual(lg) ==
  IF lg = <<>> THEN 0
  ELSE (IF Head(lg).ev = "completed" THEN Head(lg).actual ELSE 0) + SumActual(Tail(lg))

\* C26: the deadline of a phase is its own start time plus its duration,
\* whatever delay went before, so every completed phase took at least its
\* duration and the delays add up: in a completed session the total time is
\* the sum of the phases' times and at least the expected duration (the
\* drift is not negative), and a session with the drift warning is
\* Completed like any other and exits with 0.
C26_DriftNotNegative ==
  /\ pc \in PhaseFns =>
       /\ end_time = phase_start + Ticks(PhaseDuration(RunningKind))
       /\ phase_start = task_start + SumActual(log)
  /\ \A i \in 1 .. Len(log) :
       /\ log[i].ev = "completed" => log[i].actual >= Ticks(log[i].expected)
       /\ log[i].ev = "task_completed" =>
            /\ log[i].actual >= Ticks(log[i].expected)
            /\ log[i].actual = SumActual(log)
            /\ log[i].expected = ExpectedDuration
            /\ outcome = "Completed"
       /\ log[i].ev = "drift_warning" =>
            /\ i = Len(log) /\ log[i - 1].ev = "task_completed"
            /\ 10 * (log[i].actual - Ticks(log[i].expected)) > TicksPerSecond
            /\ outcome = "Completed"
            /\ pc = "exit" => exit_code = EXIT_OK

\* A session completed with the drift warning, after delays in two phases.
C26_Witness ==
  /\ pc = "exit" /\ outcome = "Completed" /\ exit_code = EXIT_OK
  /\ Last(log).ev = "drift_warning"
  /\ Cardinality({i \in 1 .. Len(log) :
         log[i].ev = "completed" /\ log[i].actual > Ticks(log[i].expected)}) = 2


\* ---------------------------------------------------------------------- C27
\* A start key the start mode enables is pending with no cancel key or quit
\* event before it / a cancel key or quit event is pending with no such
\* start key before it.
StartKeyFirst ==
  \E i \in 1 .. Len(events) :
    /\ IsStartCondition(events[i])
    /\ \A j \in 1 .. i - 1 : events[j] \notin CancelEvents

CancelFirst ==
  \E i \in 1 .. Len(events) :
    /\ events[i] \in CancelEvents
    /\ \A j \in 1 .. i - 1 : ~IsStartCondition(events[j])

StartKeyPending == \E i \in 1 .. Len(events) : IsStartCondition(events[i])

\* A trigger is in the queue and the start mode enables it.
TriggerPending ==
  /\ Lower(config.start_mode) \in {"trigger", "both"}
  /\ HasHandler /\ trigger_queue > 0

\* The first poll of wait_for_start.
FirstPoll == wait_for_start /\ polls = 0

\* Nothing but a poll of wait_for_start takes an event that is pending
\* before the start, and nothing but wait_for_start takes a trigger.
SignalsKept ==
  /\ pc \in {"run_task", "wait_for_start"} /\ ~wait_for_start /\ pc' # "show_message" =>
       /\ Len(events') >= Len(events)
       /\ SubSeq(events', 1, Len(events)) = events
  /\ pc # "wait_for_start" => trigger_queue' >= trigger_queue

\* C27: the start signals that arrive before wait_for_start polls are kept:
\* a trigger put in the queue after the thread was started, or a space key
\* or trigger character key pending in the event queue, makes the first
\* poll of wait_for_start return True when the start mode enables the
\* signal; once wait_for_start has returned the trigger queue is not read.
C27_EarlySignalStarts ==
  [][/\ (FirstPoll /\ (StartKeyPending \/ TriggerPending)) =>
          pc' \in PhaseFns /\ start_key' # "" /\ outcome' = "Running"
     /\ SignalsKept]_vars

\* As C27, with the cancel keys and quit events of the same poll: the first
\* poll returns True on a pending start key that no cancel key or quit
\* event precedes and on a pending trigger when the poll gets neither a
\* start key nor a cancel key or quit event; it returns False on a cancel
\* key or quit event that no start key precedes.
C27_EarlySignalDecides ==
  [][/\ (FirstPoll /\ StartKeyFirst) =>
          /\ pc' \in PhaseFns /\ outcome' = "Running"
          /\ start_key' \in {"K_SPACE", "K_EQUALS"}
          /\ trigger_queue' = trigger_queue
     /\ (FirstPoll /\ TriggerPending /\ ~StartKeyPending /\ ~CancelPending) =>
          /\ pc' \in PhaseFns /\ outcome' = "Running"
          /\ start_key' = "SERIAL"
          /\ trigger_queue' = trigger_queue - 1
     /\ (FirstPoll /\ CancelFirst) =>
          /\ outcome' = "Cancelled" /\ start_key' = ""
          /\ trigger_queue' = trigger_queue
     /\ SignalsKept]_vars

\* The session was started by a trigger that was in the queue before
\* wait_for_start polled, and a later trigger stays in the queue through the
\* instruction phase.
C27_Witness ==
  /\ start_key = "SERIAL" /\ Len(log) = 2
  /\ pc = "show_instruction_image" /\ now > phase_start
  /\ trigger_queue = MaxTriggers

====
